---- MODULE Spec2Model ----
(***************************************************************************)
(* Purchase-order workbook combiner (combine_purchase_orders.py).          *)
(*                                                                         *)
(* Text is modelled by TLA+ strings, character by character: every str     *)
(* method and regular expression the code applies is computed here on the  *)
(* characters.  A Python None is the string None, an empty spreadsheet     *)
(* cell (pandas NaN) is the string NaN; neither can be typed into a cell.  *)
(* A dict is the sequence of its <<key, value>> pairs in insertion order.  *)
(***************************************************************************)
EXTENDS Integers, Sequences, FiniteSets, TLC

None == "<None>"
NaN  == "<NaN>"

-----------------------------------------------------------------------------
(* str primitives                                                          *)

Char(s, i) == SubSeq(s, i, i)

UpperLetters == "ABCDEFGHIJKLMNOPQRSTUVWXYZ"
LowerLetters == "abcdefghijklmnopqrstuvwxyz"
Digits == "0123456789"

CharsOf(s) == { Char(s, i) : i \in 1..Len(s) }

IndexOf(c, s) == CHOOSE i \in 1..Len(s) : Char(s, i) = c

LowerTable == [ c \in CharsOf(UpperLetters) |-> Char(LowerLetters, IndexOf(c, UpperLetters)) ]
UpperTable == [ c \in CharsOf(LowerLetters) |-> Char(UpperLetters, IndexOf(c, LowerLetters)) ]

\* the characters of file paths in code-point order, for string comparison
Ascii == " !#$%&()+,-./0123456789:;=@ABCDEFGHIJKLMNOPQRSTUVWXYZ[]^_abcdefghijklmnopqrstuvwxyz{}~"
OrdTable == [ c \in CharsOf(Ascii) |-> IndexOf(c, Ascii) ]
Ord(c) == IF c \in DOMAIN OrdTable THEN OrdTable[c] ELSE 0

\* what \s, str.strip() and str.split() treat as white space
Whitespace == { " ", "\t", "\n", "\r", "\f" }
DigitChars == CharsOf(Digits)
\* \w
WordChars == CharsOf(UpperLetters) \cup CharsOf(LowerLetters) \cup DigitChars \cup { "_" }

LowerChar(c) == IF c \in DOMAIN LowerTable THEN LowerTable[c] ELSE c
UpperChar(c) == IF c \in DOMAIN UpperTable THEN UpperTable[c] ELSE c

MinOf(S) == CHOOSE i \in S : \A j \in S : i <= j
MaxOf(S) == CHOOSE i \in S : \A j \in S : j <= i

\* the element of a one-element set
Only(S) == CHOOSE e \in S : TRUE

\* piece(1) piece(2) ... piece(n), concatenated
concat(n, piece(_)) ==
  LET upto[i \in 0..n] == IF i = 0 THEN "" ELSE upto[i - 1] \o piece(i)
  IN upto[n]

str_lower(s) == concat(Len(s), LAMBDA i : LowerChar(Char(s, i)))
str_upper(s) == concat(Len(s), LAMBDA i : UpperChar(Char(s, i)))

str_strip(s) ==
  LET solid == { i \in 1..Len(s) : Char(s, i) \notin Whitespace }
  IN IF solid = {} THEN "" ELSE SubSeq(s, MinOf(solid), MaxOf(solid))

str_isdigit(s) == s # "" /\ \A i \in 1..Len(s) : Char(s, i) \in DigitChars

startswith(s, p) == Len(p) <= Len(s) /\ SubSeq(s, 1, Len(p)) = p
endswith(s, p) == Len(p) <= Len(s) /\ SubSeq(s, Len(s) - Len(p) + 1, Len(s)) = p

\* p in s
contains(s, p) == \E i \in 1..(Len(s) - Len(p) + 1) : SubSeq(s, i, i + Len(p) - 1) = p

\* s < t in the string order of sorted()
str_less(s, t) ==
  LET differ == { i \in 1..Len(s) : i <= Len(t) /\ Char(s, i) # Char(t, i) }
  IN IF differ = {} THEN Len(s) < Len(t)
     ELSE Ord(Char(s, MinOf(differ))) < Ord(Char(t, MinOf(differ)))

\* re.sub(r'[class]+', ' ', s): every maximal run of class characters becomes one space
sub_runs(s, class) ==
  concat(Len(s), LAMBDA i :
    IF Char(s, i) \notin class THEN Char(s, i)
    ELSE IF i < Len(s) /\ Char(s, i + 1) \in class THEN "" ELSE " ")

\* re.sub(r'[class]', '', s)
remove_chars(s, class) ==
  concat(Len(s), LAMBDA i : IF Char(s, i) \in class THEN "" ELSE Char(s, i))

\* the end of the longest run of characters of class that starts at i
run_end(s, i, class) ==
  LET stop == { j \in i..Len(s) : Char(s, j) \notin class }
  IN IF i > Len(s) THEN i ELSE IF stop = {} THEN Len(s) + 1 ELSE MinOf(stop)

\* the end of the longest run of characters outside class that starts at i
run_end_not(s, i, class) ==
  LET stop == { j \in i..Len(s) : Char(s, j) \in class }
  IN IF i > Len(s) THEN i ELSE IF stop = {} THEN Len(s) + 1 ELSE MinOf(stop)

\* set(s.split())
split_words(s) ==
  LET starts == { i \in 1..Len(s) : Char(s, i) \notin Whitespace /\ (i = 1 \/ Char(s, i - 1) \in Whitespace) }
  IN { SubSeq(s, i, run_end_not(s, i, Whitespace) - 1) : i \in starts }

\* the k-th smallest element of a set of numbers
Nth(S, k) == CHOOSE i \in S : Cardinality({ j \in S : j <= i }) = k

\* s.split(sep) for a one-character separator
split_on(s, sep) ==
  LET at == { i \in 1..Len(s) : Char(s, i) = sep }
      n == Cardinality(at)
  IN [ k \in 1..(n + 1) |->
         SubSeq(s, IF k = 1 THEN 1 ELSE Nth(at, k - 1) + 1, IF k = n + 1 THEN Len(s) ELSE Nth(at, k) - 1) ]

\* sep.join(parts)
join(parts, sep) ==
  concat(Len(parts), LAMBDA i : IF i = 1 THEN parts[1] ELSE sep \o parts[i])

Range(seq) == { seq[i] : i \in 1..Len(seq) }

-----------------------------------------------------------------------------
(* Configuration                                                           *)

REQUIRED_COLUMNS ==
  << "Folder",
     "Product Type (NEW)",
     "Source_File",
     "Sheet_Name",
     "Production Order Form",
     "Reference Format No",
     "PO Reference",
     "Reference Order No",
     "Order Form",
     "Order Type",
     "Order Date",
     "O.F. Date",
     "PO Date",
     "Generic Name",
     "Brand Name",
     "Quantity",
     "Pack Size",
     "Product Rate (NEW)",
     "Packing Size",
     "Packing Type",
     "Strength",
     "Net Content",
     "M.R.P.",
     "M.R.P. (Per Strip)",
     "Exp. Date",
     "Shelf Life",
     "Flavour",
     "Colour",
     "Packaging",
     "Bottle Type",
     "Measuring Cap",
     "Spray Pump",
     "ROPP Cap",
     "Closure",
     "Cap Color",
     "Label Provided By",
     "Carton Provided By",
     "Dropper",
     "PVC Size",
     "PVC Colour",
     "PVC Color & Type",
     "Blister Type",
     "Capsules Size",
     "Capsules Color",
     "Capsule Type",
     "Punch Size",
     "Tablet Color",
     "Coating Type",
     "Jar",
     "Jar Type",
     "Jar Lid Color",
     "Tin Type",
     "Tin / Jar Type",
     "Tin / Jar Rim Type",
     "Corrugated Box",
     "Corrugated Box Pack Size",
     "Corrugated Tin",
     "Cap / Lid / Spoon",
     "Spoon",
     "Leaflet",
     "Dropper (if not counted earlier)",
     "Strapping",
     "Wrapping",
     "Shrinking",
     "Dispatched Detail",
     "Date Of Dispatch",
     "Company Name",
     "Name Of Client",
     "Name Of Marketed By",
     "Contact Person",
     "Contact Number",
     "Contact Detail Of Dispatch",
     "Specific Requirement If Any",
     "Artwork Revision",
     "Artwork Revision No",
     "Prepared By",
     "Checked By",
     "Approved Date",
     "Issued By Sign & Date",
     "Checked & Authorised Sign & Date",
     "Authorised Sign",
     "Designation",
     "Rate",
     "Due Payment",
     "Remark",
     "Product Batch Number" >>

variations ==
  ("reference format no" :> "Reference Format No") @@
  ("ref format no" :> "Reference Format No") @@
  ("reference format" :> "Reference Format No") @@
  ("po reference" :> "PO Reference") @@
  ("po ref" :> "PO Reference") @@
  ("reference order no" :> "Reference Order No") @@
  ("order form number" :> "Order Form") @@
  ("order form no" :> "Order Form") @@
  ("order form" :> "Order Form") @@
  ("order type" :> "Order Type") @@
  ("order date" :> "Order Date") @@
  ("of date" :> "O.F. Date") @@
  ("o.f. date" :> "O.F. Date") @@
  ("po date" :> "PO Date") @@
  ("generic name" :> "Generic Name") @@
  ("brand name" :> "Brand Name") @@
  ("quantity" :> "Quantity") @@
  ("qty" :> "Quantity") @@
  ("qty uom" :> "Qty (UOM)") @@
  ("qty (uom)" :> "Qty (UOM)") @@
  ("pack size" :> "Pack Size") @@
  ("packing size" :> "Packing Size") @@
  ("packing type" :> "Packing Type") @@
  ("strength" :> "Strength") @@
  ("net content" :> "Net Content") @@
  ("m.r.p" :> "M.R.P.") @@
  ("mrp" :> "M.R.P.") @@
  ("m.r.p." :> "M.R.P.") @@
  ("m.r.p. per strip" :> "M.R.P. (Per Strip)") @@
  ("exp date" :> "Exp. Date") @@
  ("expiry date" :> "Exp. Date") @@
  ("shelf life" :> "Shelf Life") @@
  ("flavour" :> "Flavour") @@
  ("flavor" :> "Flavour") @@
  ("colour" :> "Colour") @@
  ("color" :> "Colour") @@
  ("packaging" :> "Packaging") @@
  ("bottle type" :> "Bottle Type") @@
  ("measuring cap" :> "Measuring Cap") @@
  ("spray pump" :> "Spray Pump") @@
  ("ropp cap" :> "ROPP Cap") @@
  ("closure" :> "Closure") @@
  ("cap color" :> "Cap Color") @@
  ("cap colour" :> "Cap Color") @@
  ("label provided by" :> "Label Provided By") @@
  ("carton provided by" :> "Carton Provided By") @@
  ("dropper" :> "Dropper") @@
  ("pvc size" :> "PVC Size") @@
  ("pvc colour" :> "PVC Colour") @@
  ("pvc color" :> "PVC Colour") @@
  ("pvc color type" :> "PVC Color & Type") @@
  ("pvc color & type" :> "PVC Color & Type") @@
  ("blister type" :> "Blister Type") @@
  ("capsules size" :> "Capsules Size") @@
  ("capsule size" :> "Capsules Size") @@
  ("capsules color" :> "Capsules Color") @@
  ("capsule color" :> "Capsules Color") @@
  ("capsules colour" :> "Capsules Color") @@
  ("capsule type" :> "Capsule Type") @@
  ("tablet color" :> "Tablet Color") @@
  ("tablet colour" :> "Tablet Color") @@
  ("coating type" :> "Coating Type") @@
  ("punch size" :> "Punch Size") @@
  ("jar" :> "Jar") @@
  ("jar type" :> "Jar Type") @@
  ("tin type" :> "Tin Type") @@
  ("tin jar type" :> "Tin / Jar Type") @@
  ("tin / jar type" :> "Tin / Jar Type") @@
  ("tin jar rim type" :> "Tin / Jar Rim Type") @@
  ("tin / jar rim type" :> "Tin / Jar Rim Type") @@
  ("jar lid color" :> "Jar Lid Color") @@
  ("corrugated box" :> "Corrugated Box") @@
  ("corrugated box pack size" :> "Corrugated Box Pack Size") @@
  ("corrugated tin" :> "Corrugated Tin") @@
  ("cap lid spoon" :> "Cap / Lid / Spoon") @@
  ("cap / lid / spoon" :> "Cap / Lid / Spoon") @@
  ("spoon" :> "Spoon") @@
  ("leaflet" :> "Leaflet") @@
  ("strapping" :> "Strapping") @@
  ("wrapping" :> "Wrapping") @@
  ("shrinking" :> "Shrinking") @@
  ("dispatched detail" :> "Dispatched Detail") @@
  ("company name" :> "Company Name") @@
  ("name of client" :> "Name Of Client") @@
  ("name of marketed by" :> "Name Of Marketed By") @@
  ("marketed by" :> "Name Of Marketed By") @@
  ("contact person" :> "Contact Person") @@
  ("contact number" :> "Contact Number") @@
  ("contact detail of dispatch" :> "Contact Detail Of Dispatch") @@
  ("date of dispatch" :> "Date Of Dispatch") @@
  ("specific requirement if any" :> "Specific Requirement If Any") @@
  ("artwork revision" :> "Artwork Revision") @@
  ("artwork revision no" :> "Artwork Revision No") @@
  ("prepared by" :> "Prepared By") @@
  ("checked by" :> "Checked By") @@
  ("approved date" :> "Approved Date") @@
  ("issued by sign date" :> "Issued By Sign & Date") @@
  ("checked authorised sign date" :> "Checked & Authorised Sign & Date") @@
  ("authorised sign" :> "Authorised Sign") @@
  ("designation" :> "Designation") @@
  ("rate" :> "Rate") @@
  ("due payment" :> "Due Payment") @@
  ("remark" :> "Remark") @@
  ("product batch number" :> "Product Batch Number")

SKIP_PATTERNS ==
  << "~$", ".ini", ".lnk", "desktop", "Autosaved", "AutoRecovered", "Recovered", "INDEX", ".tmp" >>

-----------------------------------------------------------------------------
(* Text Normalizer and Column Matcher                                      *)

NormClass == { "_", ".", "-", "(", ")" } \cup Whitespace

\* normalize_text without the strip that follows the substitutions
unstripped_text(text) ==
  IF text = "" \/ text = None \/ text = NaN THEN ""
  ELSE sub_runs(str_lower(str_strip(text)), NormClass)

normalize_text(text) ==
  IF text = "" \/ text = None \/ text = NaN THEN ""
  ELSE str_strip(sub_runs(sub_runs(str_lower(str_strip(text)), NormClass), Whitespace))

\* match_normalized with the variations looked up after the subset candidates
subset_before_alias(source_normalized, source_words, target_columns, target_words) ==
  LET n == Len(target_columns)
      equal == { i \in 1..n : source_words = target_words[i] }
      candidates == { i \in 1..n : /\ source_words \subseteq target_words[i] \/ target_words[i] \subseteq source_words
                                   /\ source_words \cap target_words[i] # {} }
  IN IF equal # {} THEN target_columns[MinOf(equal)]
     ELSE IF candidates # {} THEN target_columns[MinOf(candidates)]
     ELSE IF source_normalized \in DOMAIN variations THEN variations[source_normalized]
     ELSE None

\* the matching rules on the normalized source and the word sets of source and targets
match_normalized(source_normalized, source_words, target_columns, target_words) ==
  LET n == Len(target_columns)
      equal == { i \in 1..n : source_words = target_words[i] }
      score == [ i \in 1..n |->
                 IF source_words \subseteq target_words[i] \/ target_words[i] \subseteq source_words
                 THEN Cardinality(source_words \cap target_words[i]) ELSE 0 ]
      \* the first target whose score is positive and not exceeded by any other
      best == { i \in 1..n : score[i] > 0 /\ \A j \in 1..n : score[j] <= score[i] }
  IN IF equal # {} THEN target_columns[MinOf(equal)]
     ELSE IF source_normalized \in DOMAIN variations THEN variations[source_normalized]
     ELSE IF best = {} THEN None ELSE target_columns[MinOf(best)]

match_column_name(source_name, target_columns) ==
  IF source_name = "" \/ source_name = None THEN None
  ELSE Only({ IF \E i \in 1..Len(target_columns) : target_normalized[i] = source_normalized
              THEN target_columns[MinOf({ i \in 1..Len(target_columns) : target_normalized[i] = source_normalized })]
              ELSE match_normalized(source_normalized, split_words(source_normalized), target_columns,
                                    [ i \in 1..Len(target_columns) |-> split_words(target_normalized[i]) ]) :
              source_normalized \in { normalize_text(source_name) },
              target_normalized \in { [ i \in 1..Len(target_columns) |-> normalize_text(target_columns[i]) ] } })

-----------------------------------------------------------------------------
(* dict: the sequence of <<key, value>> pairs in insertion order           *)

Keys(d) == { d[i][1] : i \in 1..Len(d) }
HasKey(d, k) == \E i \in 1..Len(d) : d[i][1] = k
Get(d, k) == IF HasKey(d, k) THEN d[CHOOSE i \in 1..Len(d) : d[i][1] = k][2] ELSE None
\* d[k] = v: a key already present keeps its position
Put(d, k, v) ==
  IF HasKey(d, k) THEN [ i \in 1..Len(d) |-> IF d[i][1] = k THEN << k, v >> ELSE d[i] ]
  ELSE Append(d, << k, v >>)

\* extract_data_from_sheet returning None
NoData == << << None, None >> >>

-----------------------------------------------------------------------------
(* Sheet Extractor                                                         *)
(* A sheet (DataFrame read with header=None) is a sequence of rows, each   *)
(* a sequence of cells of the same length; a cell is its text or NaN.      *)

len(df) == Len(df)
columns(df) == IF df = << >> THEN 0 ELSE Len(df[1])
\* df.iloc[row_index, col_index], both counted from 0
iloc(df, row_index, col_index) == df[row_index + 1][col_index + 1]
\* str(cell)
str(cell) == IF cell = NaN THEN "nan" ELSE cell

\* the regular expressions of the header scan: a literal, optionally
\* \s*\([^)]*\), optionally \s*:, then \s* and the group
\*   rest (.*)   word (\w+)   date ([\d\-/]+)
RefFormatRe   == [ lit |-> "Reference format no.*rev no.:", paren |-> FALSE, colon |-> FALSE, group |-> "rest" ]
OrderFormRe   == [ lit |-> "Order form number", paren |-> FALSE, colon |-> TRUE, group |-> "word" ]
OFDateRe      == [ lit |-> "O.F. Date", paren |-> FALSE, colon |-> TRUE, group |-> "date" ]
PODateRe      == [ lit |-> "PO Date", paren |-> FALSE, colon |-> TRUE, group |-> "date" ]
POReferenceRe == [ lit |-> "POreference", paren |-> FALSE, colon |-> TRUE, group |-> "rest" ]
OrderTypeRe   == [ lit |-> "Order type", paren |-> FALSE, colon |-> TRUE, group |-> "rest" ]
ContactRe     == [ lit |-> "Contact person", paren |-> TRUE, colon |-> TRUE, group |-> "rest" ]

DateChars == DigitChars \cup { "-", "/" }

\* the match of pattern that starts at position i of s: << TRUE, group(1) >>, or << FALSE, "" >>
match_at(pattern, s, i) ==
  LET L == Len(pattern.lit)
      fail == << FALSE, "" >>
  IN IF i + L - 1 > Len(s) \/ str_lower(SubSeq(s, i, i + L - 1)) # str_lower(pattern.lit) THEN fail
     ELSE
       LET j0 == i + L
           \* \s*\([^)]*\)
           p1 == run_end(s, j0, Whitespace)
           p2 == run_end_not(s, p1 + 1, { ")" })
           parenOk == ~ pattern.paren \/ (p1 <= Len(s) /\ Char(s, p1) = "(" /\ p2 <= Len(s))
           j1 == IF pattern.paren THEN p2 + 1 ELSE j0
           \* \s*:
           c1 == run_end(s, j1, Whitespace)
           colonOk == ~ pattern.colon \/ (c1 <= Len(s) /\ Char(s, c1) = ":")
           j2 == IF pattern.colon THEN c1 + 1 ELSE j1
           \* \s*(group)
           g == run_end(s, j2, Whitespace)
           e == CASE pattern.group = "rest" -> run_end_not(s, g, { "\n" })
                  [] pattern.group = "word" -> run_end(s, g, WordChars)
                  [] pattern.group = "date" -> run_end(s, g, DateChars)
       IN IF ~ parenOk \/ ~ colonOk THEN fail
          ELSE IF pattern.group # "rest" /\ e = g THEN fail
          ELSE << TRUE, SubSeq(s, g, e - 1) >>

\* re.search(pattern, s, re.IGNORECASE): the leftmost match
re_search(pattern, s) ==
  LET starts == { i \in 1..(Len(s) + 1) : match_at(pattern, s, i)[1] }
  IN IF starts = {} THEN << FALSE, "" >> ELSE match_at(pattern, s, MinOf(starts))

safe_extract(df, row_index, col_index, pattern) ==
  IF row_index < len(df) /\ col_index < columns(df)
  THEN LET cell_value == iloc(df, row_index, col_index)
       IN IF cell_value # NaN
          THEN LET match == re_search(pattern, str(cell_value))
               IN IF match[1] THEN str_strip(match[2]) ELSE None
          ELSE None
  ELSE None

\* the header fields in the order the loop body tests them
HeaderFields ==
  << [ column |-> "Reference Format No", keywords |-> { "reference format" }, pattern |-> RefFormatRe ],
     [ column |-> "Order Form", keywords |-> { "order form number", "order form" }, pattern |-> OrderFormRe ],
     [ column |-> "O.F. Date", keywords |-> { "o.f. date", "of date" }, pattern |-> OFDateRe ],
     [ column |-> "PO Date", keywords |-> { "po date" }, pattern |-> PODateRe ],
     [ column |-> "PO Reference", keywords |-> { "poreference", "po reference" }, pattern |-> POReferenceRe ],
     [ column |-> "Order Type", keywords |-> { "order type" }, pattern |-> OrderTypeRe ],
     [ column |-> "Contact Person", keywords |-> { "contact person" }, pattern |-> ContactRe ] >>

\* one header field of one row: the keyword test, the extraction, the store
HeaderField(df, row, record, field) ==
  LET row_val == str(iloc(df, row, 0))
  IN IF \E kw \in field.keywords : contains(str_lower(row_val), kw)
     THEN LET found == safe_extract(df, row, 0, field.pattern)
          IN IF found # None /\ found # "" THEN Put(record, field.column, found) ELSE record
     ELSE record

\* the body of the header loop for one row: the fields one after the other
HeaderRow(df, row, record) ==
  LET after[k \in 0..Len(HeaderFields)] ==
        IF k = 0 THEN record
        ELSE Only({ HeaderField(df, row, so_far, HeaderFields[k]) : so_far \in { after[k - 1] } })
  IN IF columns(df) = 0 THEN record ELSE after[Len(HeaderFields)]

HeaderFirst == 3
HeaderStop == 10
TitleFirst == 8
MinRows == 5

Min2(a, b) == IF a < b THEN a ELSE b

\* the header loop: for row_idx in range(3, min(10, len(df_sheet)))
HeaderScan(df, record) ==
  LET before[row \in HeaderFirst..HeaderStop] ==
        IF row = HeaderFirst THEN record
        ELSE Only({ HeaderRow(df, row - 1, so_far) : so_far \in { before[row - 1] } })
  IN IF len(df) <= HeaderFirst THEN record ELSE before[Min2(HeaderStop, len(df))]

SkippedTitles == { "no.", "no", "title", "details" }
NoValues == { "NA", "N/A", "" }
MrpPlaceholders == { "EXPORT", "NA", "PHY.SAMPLE", "TO BE CONFIRM", "PERUNITPRICE", "" }

\* re.sub(r'^Rs\.?\s*', '', s, flags=re.IGNORECASE)
strip_rs(s) ==
  IF Len(s) >= 2 /\ str_lower(SubSeq(s, 1, 2)) = "rs"
  THEN LET d == IF Len(s) >= 3 /\ Char(s, 3) = "." THEN 4 ELSE 3
       IN SubSeq(s, run_end(s, d, Whitespace), Len(s))
  ELSE s

\* what is stored for an MRP-type column
mrp_value(details_value, additional_value) ==
  IF additional_value # None /\ additional_value # ""
  THEN LET mrp_clean == remove_chars(str_strip(strip_rs(additional_value)), { "," } \cup Whitespace)
       IN IF mrp_clean # "" /\ str_upper(mrp_clean) \notin MrpPlaceholders
          THEN mrp_clean ELSE details_value
  ELSE details_value

\* what is stored for a quantity-type column: re.match(r'[\"\']?([\d,]+)', details_value)
qty_value(details_value) ==
  LET g == IF details_value # "" /\ Char(details_value, 1) \in { "\"", "'" } THEN 2 ELSE 1
      e == run_end(details_value, g, DigitChars \cup { "," })
  IN IF e > g THEN str_strip(remove_chars(SubSeq(details_value, g, e - 1), { "," }))
     ELSE details_value

\* store_title without the test that the column is not yet in the record
overwriting_title(record, title_cell, title, details_value, additional_value, matched_column) ==
  IF title_cell = NaN \/ title = "" \/ matched_column = None \/ details_value = "" THEN record
  ELSE Put(record, matched_column, details_value)

\* what the title/details loop does with one row, from its cells and the matched column
store_title(record, title_cell, title, details_value, additional_value, matched_column) ==
  IF title_cell = NaN THEN record
  ELSE IF title = "" \/ str_isdigit(title) \/ str_lower(title) \in SkippedTitles THEN record
  ELSE IF matched_column = None \/ HasKey(record, matched_column) THEN record
  ELSE IF details_value = "" \/ str_upper(details_value) \in NoValues THEN record
  ELSE IF contains(str_lower(matched_column), "m.r.p")
       THEN Put(record, matched_column, mrp_value(details_value, additional_value))
  ELSE IF contains(str_lower(matched_column), "quantity") \/ contains(str_lower(matched_column), "qty")
       THEN Put(record, matched_column, qty_value(details_value))
  ELSE Put(record, matched_column, details_value)

\* the body of the title/details loop for one row
TitleRow(df, row, record) ==
  IF columns(df) < 3 THEN record
  ELSE store_title(record,
                   iloc(df, row, 1),
                   str_strip(str(iloc(df, row, 1))),
                   IF iloc(df, row, 2) # NaN THEN str_strip(str(iloc(df, row, 2))) ELSE "",
                   IF columns(df) > 4 /\ iloc(df, row, 4) # NaN THEN str_strip(str(iloc(df, row, 4))) ELSE None,
                   match_column_name(str_strip(str(iloc(df, row, 1))), REQUIRED_COLUMNS))

\* the title/details loop: for row_idx in range(8, len(df_sheet))
TitleScan(df, record) ==
  LET before[row \in TitleFirst..len(df)] ==
        IF row = TitleFirst THEN record
        ELSE Only({ TitleRow(df, row - 1, so_far) : so_far \in { before[row - 1] } })
  IN IF len(df) <= TitleFirst THEN record ELSE before[len(df)]

GateKeys == { "Order Form", "Reference Format No", "PO Reference" }

\* Gate with the minimum-data check left out
ungated(record) == record

\* the minimum-data check that ends extract_data_from_sheet
Gate(record) == IF Keys(record) \cap GateKeys = {} THEN NoData ELSE record

TooShort(df) == len(df) = 0 \/ columns(df) = 0 \/ len(df) < MinRows

extract_data_from_sheet(df) ==
  IF TooShort(df) THEN NoData
  ELSE Gate(TitleScan(df, HeaderScan(df, << >>)))

-----------------------------------------------------------------------------
(* Files and the Processed-File Ledger                                     *)

\* os.path.basename
basename(path) == LET parts == split_on(path, "/") IN parts[Len(parts)]

is_valid_excel_file(file_path) ==
  LET file_name == str_lower(basename(file_path))
  IN IF \E i \in 1..Len(SKIP_PATTERNS) : contains(file_name, str_lower(SKIP_PATTERNS[i]))
     THEN FALSE
     ELSE endswith(file_path, ".xlsx")

\* sorted(S) for a set of strings
sorted(S) ==
  [ k \in 1..Cardinality(S) |-> CHOOSE x \in S : Cardinality({ y \in S : str_less(y, x) }) = k - 1 ]

\* the files os.walk finds under folder_path among the files that exist, filtered and sorted
get_all_excel_files(folder_path, existing) ==
  sorted({ p \in existing : startswith(p, folder_path \o "/") /\ is_valid_excel_file(p) })

\* int(s) does not raise: digits, single underscores between them, an optional sign,
\* whitespace around
is_int(s) ==
  LET t == str_strip(s)
      first == IF t # "" /\ Char(t, 1) \in { "+", "-" } THEN 2 ELSE 1
  IN /\ first <= Len(t)
     /\ \A i \in first..Len(t) : Char(t, i) \in DigitChars \cup { "_" }
     /\ Char(t, first) # "_" /\ Char(t, Len(t)) # "_"
     /\ \A i \in first..(Len(t) - 1) : ~ (Char(t, i) = "_" /\ Char(t, i + 1) = "_")

\* the test main applies to the name of a directory under BASE_DIR
is_year_folder(item) ==
  /\ contains(item, "-")
  /\ Len(split_on(item, "-")) = 2
  /\ is_int(split_on(item, "-")[1])
  /\ is_int(split_on(item, "-")[2])

\* the directories under the base directory that hold the existing files
listdir(base, existing) ==
  { split_on(p, "/")[2] : p \in { q \in existing : startswith(q, base \o "/") /\ Len(split_on(q, "/")) > 2 } }

\* the sorted year folders main finds among the directories items of base
find_year_folders(base, items) ==
  sorted({ base \o "/" \o item : item \in { d \in items : is_year_folder(d) } })

\* the name of the year's output and tracking files: 2023-2024 gives 2023-24
output_year_name(year_name) ==
  LET year_parts == split_on(year_name, "-")
  IN IF Len(year_parts) = 2
     THEN year_parts[1] \o "-" \o
          SubSeq(year_parts[2], IF Len(year_parts[2]) > 2 THEN Len(year_parts[2]) - 1 ELSE 1, Len(year_parts[2]))
     ELSE year_name

\* the set read back from the text of a year's tracking file ("" when the file is missing)
get_processed_files_from_tracking(tracking) ==
  { str_strip(line) : line \in Range(split_on(tracking, "\n")) } \ { "" }

\* mark_file_as_processed with the append lost
unwritten_tracking(tracking, file_name) == tracking

\* the text of the tracking file after the append
mark_file_as_processed(tracking, file_name) == tracking \o file_name \o "\n"

-----------------------------------------------------------------------------
(* Year Aggregator: the table                                              *)

Columns == Range(REQUIRED_COLUMNS)

\* the elements of seq at the positions in S, in order
at_positions(seq, S) == [ k \in 1..Cardinality(S) |-> seq[Nth(S, k)] ]

\* dict_keys with the last key lost
keys_but_last(cols) == SubSeq(cols, 1, Len(cols) - 1)

\* the keys of {col: [] for col in cols}, in insertion order
dict_keys(cols) == at_positions(cols, { i \in 1..Len(cols) : \A j \in 1..(i - 1) : cols[j] # cols[i] })

\* df.assign(name=...): a new column goes last
assign_column(cols, name) == IF name \in Range(cols) THEN cols ELSE Append(cols, name)

\* df.drop(columns=[name])
drop_column(cols, name) == at_positions(cols, { i \in 1..Len(cols) : cols[i] # name })

\* df[wanted]
select_columns(cols, wanted) == at_positions(wanted, { i \in 1..Len(wanted) : wanted[i] \in Range(cols) })

\* the cell of one record under one required column: the value of the first key that matches it
result_value(record, req_col) ==
  LET hits == { i \in 1..Len(record) : match_column_name(record[i][1], << req_col >>) = req_col }
  IN IF hits = {} THEN None ELSE record[MinOf(hits)][2]

\* the row of result_data for one record
ProjectRecord(record) == [ req_col \in Columns |-> result_value(record, req_col) ]

\* result_columns with the helper columns neither dropped nor selected away
undropped_columns == Append(Append(REQUIRED_COLUMNS, "_duplicate_key"), "_sort_date")

\* the columns of the table that is written: result_data, the two helper columns added
\* and dropped, then the selection df_dedup[REQUIRED_COLUMNS]
result_columns ==
  LET frame == dict_keys(REQUIRED_COLUMNS)
      with_key == assign_column(frame, "_duplicate_key")
      df_dedup == drop_column(with_key, "_duplicate_key")
      with_date == assign_column(df_dedup, "_sort_date")
      sorted_df == drop_column(with_date, "_sort_date")
  IN select_columns(sorted_df, REQUIRED_COLUMNS)

\* create_key(row); row_id is id(row), read only when the three fields are missing
create_key(row, row_id) ==
  LET parts == (IF row["Order Form"] # None THEN << row["Order Form"] >> ELSE << >>)
               \o (IF row["PO Date"] # None THEN << row["PO Date"] >> ELSE << >>)
               \o (IF row["Brand Name"] # None THEN << row["Brand Name"] >> ELSE << >>)
  IN IF parts # << >> THEN join(parts, "|") ELSE "ROW_" \o row_id

\* drop_duplicates(subset=['_duplicate_key'], keep='first'): the positions kept
kept_positions(keys) == { i \in 1..Len(keys) : \A j \in 1..(i - 1) : keys[j] # keys[i] }

NaT == -1

DigitValue(c) == IndexOf(c, Digits) - 1

\* pd.to_datetime(text, errors='coerce') for YYYY-MM-DD texts, as a number that orders the dates
to_datetime(text) ==
  IF text = None \/ Len(text) # 10 THEN NaT
  ELSE IF Char(text, 5) # "-" \/ Char(text, 8) # "-" THEN NaT
  ELSE IF \E i \in { 1, 2, 3, 4, 6, 7, 9, 10 } : Char(text, i) \notin DigitChars THEN NaT
  ELSE LET d(i) == DigitValue(Char(text, i))
           year == 1000 * d(1) + 100 * d(2) + 10 * d(3) + d(4)
           month == 10 * d(6) + d(7)
           day == 10 * d(9) + d(10)
       IN IF month \in 1..12 /\ day \in 1..31 /\ year >= 1 THEN 10000 * year + 100 * month + day ELSE NaT

\* sort_values(by='_sort_date', na_position='last'): the orders the sort may produce.
\* Rows without a date follow in their order; the default sort kind (quicksort) promises
\* no order among rows with equal dates.
sort_orders(dates) ==
  LET n == Len(dates)
      dated == { i \in 1..n : dates[i] # NaT }
      undated == at_positions([ i \in 1..n |-> i ], (1..n) \ dated)
      k == Cardinality(dated)
  IN { p \o undated : p \in { q \in [ 1..k -> dated ] :
                                /\ \A a, b \in 1..k : a # b => q[a] # q[b]
                                /\ \A a \in 1..(k - 1) : dates[q[a]] <= dates[q[a + 1]] } }

-----------------------------------------------------------------------------
(* Sheets used as input                                                    *)

MaxRows == 10

\* rows as << column 0, title (column 1), details (column 2), column 3, additional (column 4) >>
BlankRow == << NaN, NaN, NaN, NaN, NaN >>
RowPool ==
  { << "Order form number: OF1", NaN, NaN, NaN, NaN >>,
    << "Order form number : OF2", "Brand Name", "X", NaN, NaN >>,
    << "PO Date: 2024-05-01", NaN, NaN, NaN, NaN >>,
    << NaN, "Brand Name", "Y", NaN, NaN >>,
    << NaN, "PO Reference", "P1", NaN, NaN >>,
    << NaN, "M.R.P.", "10", NaN, "Rs. 1,200" >> }
Widths == { 2, 5 }

\* the sheet of n rows and w columns that is blank except for row a at index i and row b at index j
MakeSheet(n, w, i, a, j, b) ==
  [ r \in 1..n |-> SubSeq(IF r - 1 = i THEN a ELSE IF r - 1 = j THEN b ELSE BlankRow, 1, w) ]

\* sheets of up to MaxRows rows with at most two rows filled in, anywhere from index 2 on
SheetSpace ==
  UNION { { MakeSheet(n, w, i, a, j, b) :
              i \in 2..(n - 1), j \in 2..(n - 1), a \in RowPool \cup { BlankRow }, b \in RowPool \cup { BlankRow } }
            \cup { MakeSheet(n, w, 0, BlankRow, 0, BlankRow) } :
          n \in 0..MaxRows, w \in Widths }

\* title/details rows: a field given twice, a field the header block also gives, and
\* M.R.P. rows with the additional cells the placeholder test meets
MrpCells == { NaN, "Rs. 1,200", "rs 15.50", "45", "EXPORT", "export", "Rs. NA", "PHY.SAMPLE",
              "TO BE CONFIRM", "Per Unit Price", "Rs.", " " }
TitleRows ==
  { << NaN, "Brand Name", "X", NaN, NaN >>,
    << NaN, "Brand Name", "Y", NaN, NaN >>,
    << NaN, "Order Form", "OF9", NaN, NaN >>,
    << NaN, "Qty UOM", "1,000 Nos", NaN, NaN >>,
    << NaN, "M.R.P.", "NA", NaN, "45" >> }
  \cup { << NaN, title, "12", NaN, cell >> : title \in { "M.R.P.", "M.R.P. (Per Strip)" }, cell \in MrpCells }
TitleWidths == { 3, 5 }

\* sheets of ten rows: an order form number in the header block or none, and two title rows
TitleSheets ==
  { MakeSheet(10, w, 8, a, 9, b) : w \in TitleWidths, a \in TitleRows, b \in TitleRows }
  \cup { [ MakeSheet(10, w, 8, a, 9, b) EXCEPT ![4][1] = "Order form number: OF1" ] :
           w \in TitleWidths, a \in TitleRows, b \in TitleRows }

\* labels handed to match_column_name, and the target lists it is called with: the
\* required columns, single columns as in the projection, and short lists
Labels ==
  { "PO Date", "po_date", "Date PO", "mrp", "M.R.P.", "OF Date", "Color", "Cap Colour", "Qty UOM",
    "Qty", "Brand", "Order Form", "Production Order Form", "Unknown thing", "", "Date", "Name",
    "Strength (mg)", "Reference Format", "No." }
TargetLists ==
  { REQUIRED_COLUMNS,
    << "PO Date", "PO Date (Revised)" >>, << "PO Date (Revised)", "PO Date" >>,
    << "Order Form" >>, << "Brand Name" >>, << "M.R.P." >>, << "MRP", "M.R.P." >>, << "Colour", "Cap Color" >> }

\* texts handed to normalize_text
Texts ==
  { None, NaN, "", "   ", "...", "-", "( )", "x", "X.",
    "M.R.P.", "mrp", "MRP", "m r p", "M.R.P. (Per Strip)", "mrp per strip",
    "Brand Name", "brand-name", " Brand  Name ", "brand_name", "(Brand) Name", "BRAND\tNAME", "Name\n",
    "PO Date", "po.date", "P.O. Date", "Qty (UOM)", "QTY(UOM)", "qty uom",
    "O.F. Date", "of date", "O F Date", "Exp. Date", "exp date",
    "Strength (mg)", "strength mg", "Tin / Jar Type", "A - B", "a b", "Order  Form", "order form" }

-----------------------------------------------------------------------------
(* Workbooks and year folders                                              *)

\* a sheet of n rows and five columns from its non-empty cells << row, column, text >>
Grid(n, cells) ==
  [ r \in 1..n |-> [ c \in 1..5 |->
      IF \E x \in cells : x[1] = r - 1 /\ x[2] = c - 1
      THEN (CHOOSE x \in cells : x[1] = r - 1 /\ x[2] = c - 1)[3] ELSE NaN ] ]

\* an order with header block and two title rows
SheetA ==
  Grid(10, { << 3, 0, "Order form number: OF1" >>, << 4, 0, "PO Date: 2024-05-01" >>,
             << 8, 1, "Brand Name" >>, << 8, 2, "X" >>, << 9, 1, "Strength" >>, << 9, 2, "500 mg" >> })
\* the same order in another workbook, other fields differing
SheetB ==
  Grid(11, { << 3, 0, "Order form number: OF1" >>, << 4, 0, "PO Date: 2024-05-01" >>,
             << 8, 1, "Brand Name" >>, << 8, 2, "X" >>, << 9, 1, "Strength" >>, << 9, 2, "250 mg" >>,
             << 10, 1, "Qty UOM" >>, << 10, 2, "1,000 Nos" >> })
\* the same order, its order form and production order form given as title rows
SheetC ==
  Grid(12, { << 3, 0, "POreference: P7" >>, << 4, 0, "PO Date: 2024-05-01" >>,
             << 8, 1, "Production Order Form" >>, << 8, 2, "PF1" >>,
             << 9, 1, "Order Form" >>, << 9, 2, "OF1" >>,
             << 10, 1, "Brand Name" >>, << 10, 2, "X" >> })
\* an order known by its PO reference only
SheetP == Grid(9, { << 3, 0, "POreference: P1" >>, << 8, 1, "Strength" >>, << 8, 2, "5 mg" >> })
\* an order known by its PO reference, dated like the orders above
SheetQ ==
  Grid(9, { << 4, 0, "PO Date: 2024-05-01" >>, << 5, 0, "POreference: P2" >>,
            << 8, 1, "M.R.P." >>, << 8, 2, "12" >> })
\* fields but no order form, reference format or PO reference
SheetNoGate ==
  Grid(10, { << 4, 0, "PO Date: 2023-11-30" >>, << 8, 1, "Brand Name" >>, << 8, 2, "Z" >> })
\* fewer than five rows
SheetShort == Grid(3, { << 2, 0, "Order form number: OF8" >> })
\* two different orders: one known by its order form 'A' alone, one by its brand name 'A'
SheetFormOnly == Grid(9, { << 3, 0, "Order form number: A" >> })
SheetBrandOnly ==
  Grid(9, { << 3, 0, "POreference: P9" >>, << 8, 1, "Brand Name" >>, << 8, 2, "A" >> })

\* a sheet pd.read_excel fails on
ReadError == << << "<read error>" >> >>
\* a workbook pd.ExcelFile fails on
Corrupt == << << << "<corrupt>" >> >> >>

BASE_DIR == "PO"
YearFolders == { "PO/2023-2024", "PO/2024-2025" }

\* the workbooks that can be in the year folders, each with its sheets in workbook order
Workbook ==
  ("PO/2023-2024/a.xlsx" :> << SheetA, SheetShort >>) @@
  ("PO/2023-2024/b.xlsx" :> << SheetC, SheetB >>) @@
  ("PO/2023-2024/c.xlsx" :> << SheetP, ReadError, SheetQ >>) @@
  ("PO/2023-2024/d.xlsx" :> << SheetFormOnly, SheetBrandOnly >>) @@
  ("PO/2023-2024/sub/a.xlsx" :> << SheetNoGate, ReadError >>) @@
  ("PO/2023-2024/broken.xlsx" :> Corrupt) @@
  ("PO/2023-2024/~$a.xlsx" :> Corrupt) @@
  ("PO/2024-2025/desktop.ini" :> Corrupt) @@
  ("PO/2024-2025/INDEX.xlsx" :> << SheetA >>)

\* directories under the base directory that are always there
OtherDirs == { "combined", "old-files", "2022_2023", "1-2-3", "2020-" }

\* the files there from the start, and those that arrive between runs
InitialFiles ==
  { "PO/2023-2024/broken.xlsx", "PO/2023-2024/~$a.xlsx", "PO/2024-2025/desktop.ini", "PO/2024-2025/INDEX.xlsx" }
\* d.xlsx is in place only when main finds the folders as they are
ArrivingFiles == DOMAIN Workbook \ (InitialFiles \cup { "PO/2023-2024/d.xlsx" })

MaxRuns == 3

\* what the sheets in use yield, tabulated once
PoolSheets == UNION { Range(Workbook[p]) : p \in { q \in DOMAIN Workbook : Workbook[q] # Corrupt } } \ { ReadError }
ExtractedOf == [ s \in PoolSheets |-> extract_data_from_sheet(s) ]
PoolRecords == { ExtractedOf[s] : s \in PoolSheets } \ { NoData }
ProjectedOf == [ r \in PoolRecords |-> ProjectRecord(r) ]

\* pd.read_excel and extract_data_from_sheet on one sheet of an open workbook
sheet_data(sheet) == IF sheet = ReadError THEN NoData ELSE ExtractedOf[sheet]

\* the records a workbook's sheets add to all_records, in workbook order
file_records(sheets) ==
  Only({ at_positions(got, { i \in 1..Len(sheets) : got[i] # NoData }) :
         got \in { [ i \in 1..Len(sheets) |-> sheet_data(sheets[i]) ] } })

\* one row of result_data
result_row(record) == ProjectedOf[record]

\* df_final.drop_duplicates(subset=['_duplicate_key'], keep='first') on the rows keyed
\* by create_key, ids being the addresses of the rows that carry none of the three fields
drop_duplicates(rows, ids) ==
  at_positions(rows, kept_positions([ i \in 1..Len(rows) |-> create_key(rows[i], ids[i]) ]))

\* the addresses id(row) can return for the rows handed to create_key
RowIds == { "7f01", "7f02" }

OutputNames == { output_year_name(basename(y)) : y \in YearFolders }
NoFile == [ columns |-> << >>, rows |-> << >> ]

-----------------------------------------------------------------------------
(* State                                                                   *)

VARIABLES
  df_sheet, data, row_idx, pc_sheet, extracted,   \* one call of extract_data_from_sheet
  files,            \* the workbooks in the year folders
  ledger,           \* the text of each year's tracking file, "" when there is none
  output,           \* each year's output file
  pc,               \* "idle", or "files" inside the file loop of process_year_folder
  year_folder, skip_processed,    \* the arguments of the run
  processed_files, excel_files, file_idx, all_records, df_final,   \* its locals
  returned,         \* what the last run returned: "True" or "False", None while it runs
  runs,             \* the runs started
  skip_always,      \* every run so far had skip_processed set
  marked,           \* the last call of mark_file_as_processed, with the set read before it
  match_source, match_targets, match_result,   \* one call of match_column_name and what it returned
  norm_input, norm_results, \* a text and the results of applying normalize_text to it, then to its result
  pc_main,          \* where main is: "idle", "start", "loop", "done", "returned" or "raised"
  year_folders, year_idx, successful, failed   \* the locals of main

sheetVars == << df_sheet, data, row_idx, pc_sheet, extracted >>
yearVars == << files, output, pc, year_folder, skip_processed, processed_files, excel_files,
               file_idx, all_records, df_final, returned, runs, skip_always >>
textVars == << match_source, match_targets, match_result, norm_input, norm_results >>
mainVars == << pc_main, year_folders, year_idx, successful, failed >>
vars == << sheetVars, yearVars, ledger, marked, textVars, mainVars >>

NoMark == [ file_name |-> None, year_name |-> None, before |-> {} ]

SheetIdle ==
  /\ df_sheet = << >>
  /\ data = << >>
  /\ row_idx = 0
  /\ pc_sheet = "returned"
  /\ extracted = NoData

YearIdle ==
  /\ files = InitialFiles
  /\ output = [ o \in OutputNames |-> NoFile ]
  /\ pc = "idle"
  /\ year_folder = None
  /\ skip_processed = TRUE
  /\ processed_files = {}
  /\ excel_files = << >>
  /\ file_idx = 0
  /\ all_records = << >>
  /\ df_final = << >>
  /\ returned = None
  /\ runs = 0
  /\ skip_always = TRUE

NotCalled == "<not called>"

TextIdle ==
  /\ match_source = None
  /\ match_targets = << >>
  /\ match_result = NotCalled
  /\ norm_input = None
  /\ norm_results = << >>

MainIdle ==
  /\ pc_main = "idle"
  /\ year_folders = << >>
  /\ year_idx = 0
  /\ successful = 0
  /\ failed = 0

-----------------------------------------------------------------------------
(* extract_data_from_sheet, step by step                                   *)

InitSheet ==
  /\ df_sheet \in SheetSpace
  /\ data = << >>
  /\ row_idx = 0
  /\ pc_sheet = "enter"
  /\ extracted = NoData
  /\ YearIdle
  /\ ledger = [ o \in OutputNames |-> "" ]
  /\ marked = NoMark
  /\ TextIdle
  /\ MainIdle

\* the size check and data = {}
EnterSheet ==
  /\ pc_sheet = "enter"
  /\ IF TooShort(df_sheet)
     THEN pc_sheet' = "returned" /\ row_idx' = row_idx
     ELSE pc_sheet' = "header" /\ row_idx' = HeaderFirst
  /\ UNCHANGED << textVars, mainVars, df_sheet, data, extracted, yearVars, ledger, marked >>

\* one iteration of the header loop
HeaderStep ==
  /\ pc_sheet = "header"
  /\ data' = HeaderRow(df_sheet, row_idx, data)
  /\ IF row_idx + 1 < Min2(HeaderStop, len(df_sheet))
     THEN row_idx' = row_idx + 1 /\ pc_sheet' = "header"
     ELSE row_idx' = TitleFirst /\ pc_sheet' = "titles"
  /\ UNCHANGED << textVars, mainVars, df_sheet, extracted, yearVars, ledger, marked >>

\* one iteration of the title/details loop
TitleStep ==
  /\ pc_sheet = "titles"
  /\ row_idx < len(df_sheet)
  /\ data' = TitleRow(df_sheet, row_idx, data)
  /\ row_idx' = row_idx + 1
  /\ UNCHANGED << textVars, mainVars, df_sheet, pc_sheet, extracted, yearVars, ledger, marked >>

\* the minimum-data check and the return
GateStep ==
  /\ pc_sheet = "titles"
  /\ row_idx >= len(df_sheet)
  /\ extracted' = Gate(data)
  /\ pc_sheet' = "returned"
  /\ UNCHANGED << textVars, mainVars, df_sheet, data, row_idx, yearVars, ledger, marked >>

NextSheet == EnterSheet \/ HeaderStep \/ TitleStep \/ GateStep

SpecSheet == InitSheet /\ [][NextSheet]_vars

\* the same call on the sheets that exercise the title/details loop
InitTitle ==
  /\ df_sheet \in TitleSheets
  /\ data = << >>
  /\ row_idx = 0
  /\ pc_sheet = "enter"
  /\ extracted = NoData
  /\ YearIdle
  /\ ledger = [ o \in OutputNames |-> "" ]
  /\ marked = NoMark
  /\ TextIdle
  /\ MainIdle

SpecTitle == InitTitle /\ [][NextSheet]_vars

-----------------------------------------------------------------------------
(* match_column_name and normalize_text, called directly                   *)

InitMatch ==
  /\ match_source \in Labels
  /\ match_targets \in TargetLists
  /\ match_result = NotCalled
  /\ norm_input = None
  /\ norm_results = << >>
  /\ SheetIdle
  /\ YearIdle
  /\ ledger = [ o \in OutputNames |-> "" ]
  /\ marked = NoMark
  /\ MainIdle

\* match_column_name(source_name, target_columns)
CallMatch ==
  /\ match_result = NotCalled
  /\ match_result' = match_column_name(match_source, match_targets)
  /\ UNCHANGED << match_source, match_targets, norm_input, norm_results, mainVars, sheetVars, yearVars,
                  ledger, marked >>

SpecMatch == InitMatch /\ [][CallMatch]_vars

MaxCalls == 2

InitNormalize ==
  /\ norm_input \in Texts
  /\ norm_results = << >>
  /\ match_source = None
  /\ match_targets = << >>
  /\ match_result = NotCalled
  /\ SheetIdle
  /\ YearIdle
  /\ ledger = [ o \in OutputNames |-> "" ]
  /\ marked = NoMark
  /\ MainIdle

\* normalize_text on the text, then on what the last call returned
CallNormalize ==
  /\ Len(norm_results) < MaxCalls
  /\ norm_results' = Append(norm_results,
                            normalize_text(IF norm_results = << >> THEN norm_input
                                           ELSE norm_results[Len(norm_results)]))
  /\ UNCHANGED << norm_input, match_source, match_targets, match_result, mainVars, sheetVars, yearVars,
                  ledger, marked >>

SpecNormalize == InitNormalize /\ [][CallNormalize]_vars

-----------------------------------------------------------------------------
(* The ledger's two operations, called directly                            *)

MaxMarks == 3
\* file names handed to mark_file_as_processed
NamePool == { "f.xlsx", "g.xlsx", " f.xlsx" }

InitLedger ==
  /\ SheetIdle
  /\ YearIdle
  /\ ledger = [ o \in OutputNames |-> "" ]
  /\ marked = NoMark
  /\ TextIdle
  /\ MainIdle

\* mark_file_as_processed(file_name, year_name)
MarkFile(file_name, year_name) ==
  /\ Len(split_on(ledger[year_name], "\n")) <= MaxMarks
  /\ ledger' = [ ledger EXCEPT ![year_name] = mark_file_as_processed(@, file_name) ]
  /\ marked' = [ file_name |-> file_name, year_name |-> year_name,
                 before |-> get_processed_files_from_tracking(ledger[year_name]) ]
  /\ UNCHANGED << textVars, mainVars, sheetVars, yearVars >>

\* get_processed_files_from_tracking(year_name)
LoadLedger(year_name) ==
  /\ processed_files' = get_processed_files_from_tracking(ledger[year_name])
  /\ UNCHANGED << textVars, mainVars, sheetVars, files, output, pc, year_folder, skip_processed, excel_files, file_idx,
                  all_records, df_final, returned, runs, skip_always, ledger, marked >>

NextLedger ==
  \/ \E f \in NamePool, y \in OutputNames : MarkFile(f, y)
  \/ \E y \in OutputNames : LoadLedger(y)

SpecLedger == InitLedger /\ [][NextLedger]_vars

-----------------------------------------------------------------------------
(* process_year_folder                                                     *)

Init ==
  /\ SheetIdle
  /\ YearIdle
  /\ ledger = [ o \in OutputNames |-> "" ]
  /\ marked = NoMark
  /\ TextIdle
  /\ MainIdle

\* a workbook is put into a year folder between runs
AddFile(path) ==
  /\ pc = "idle"
  /\ path \in ArrivingFiles \ files
  /\ files' = files \cup { path }
  /\ UNCHANGED << textVars, mainVars, sheetVars, output, pc, year_folder, skip_processed, processed_files, excel_files,
                  file_idx, all_records, df_final, returned, runs, skip_always, ledger, marked >>

OutputName(folder) == output_year_name(basename(folder))

\* the call, up to the file loop: the tracking file is read, the files are listed
StartRun(folder, skip) ==
  /\ pc = "idle"
  /\ runs < MaxRuns
  /\ runs' = runs + 1
  /\ year_folder' = folder
  /\ skip_processed' = skip
  /\ skip_always' = (skip_always /\ skip)
  /\ processed_files' = IF skip THEN get_processed_files_from_tracking(ledger[OutputName(folder)]) ELSE {}
  /\ excel_files' = get_all_excel_files(folder, files)
  /\ all_records' = << >>
  /\ df_final' = << >>
  /\ IF excel_files' = << >>
     THEN pc' = "idle" /\ returned' = "False" /\ file_idx' = 0
     ELSE pc' = "files" /\ returned' = None /\ file_idx' = 1
  /\ UNCHANGED << textVars, mainVars, sheetVars, files, output, ledger, marked >>

\* ProcessFile writing the records collected so far to the year's output
ProcessFileWriting ==
  /\ pc = "files"
  /\ file_idx <= Len(excel_files)
  /\ file_idx' = file_idx + 1
  /\ output' = [ output EXCEPT ![OutputName(year_folder)] =
                   [ columns |-> result_columns,
                     rows |-> [ i \in 1..Len(all_records) |-> result_row(all_records[i]) ] ] ]
  /\ UNCHANGED << textVars, mainVars, sheetVars, files, pc, year_folder, skip_processed, processed_files,
                  excel_files, all_records, df_final, returned, runs, skip_always, ledger, marked >>

\* one iteration of the file loop: the skip check, or the workbook opened, its sheets
\* extracted and the file marked
ProcessFile ==
  /\ pc = "files"
  /\ file_idx <= Len(excel_files)
  /\ LET file_path == excel_files[file_idx]
         file_name == basename(file_path)
         year_name == OutputName(year_folder)
     IN IF skip_processed /\ file_name \in processed_files
        THEN UNCHANGED << all_records, ledger, marked >>
        ELSE IF Workbook[file_path] = Corrupt
        THEN UNCHANGED << all_records, ledger, marked >>
        ELSE \E found \in { file_records(Workbook[file_path]) } :
               /\ all_records' = all_records \o found
               /\ IF Len(found) > 0 /\ skip_processed
                  THEN /\ ledger' = [ ledger EXCEPT ![year_name] = mark_file_as_processed(@, file_name) ]
                       /\ marked' = [ file_name |-> file_name, year_name |-> year_name,
                                      before |-> get_processed_files_from_tracking(ledger[year_name]) ]
                  ELSE UNCHANGED << ledger, marked >>
  /\ file_idx' = file_idx + 1
  /\ UNCHANGED << textVars, mainVars, sheetVars, files, output, pc, year_folder, skip_processed, processed_files,
                  excel_files, df_final, returned, runs, skip_always >>

\* Finish writing a table and returning True whatever was collected
FinishEmpty ==
  /\ pc = "files"
  /\ file_idx > Len(excel_files)
  /\ pc' = "idle"
  /\ returned' = "True"
  /\ df_final' = [ i \in 1..Len(all_records) |-> result_row(all_records[i]) ]
  /\ output' = [ output EXCEPT ![OutputName(year_folder)] = [ columns |-> result_columns, rows |-> df_final' ] ]
  /\ UNCHANGED << textVars, mainVars, sheetVars, files, year_folder, skip_processed, processed_files, excel_files,
                  file_idx, all_records, runs, skip_always, ledger, marked >>

\* after the file loop: nothing collected, or the table built, deduplicated, sorted and written
Finish ==
  /\ pc = "files"
  /\ file_idx > Len(excel_files)
  /\ pc' = "idle"
  /\ IF all_records = << >>
     THEN /\ returned' = "False"
          /\ UNCHANGED << output, df_final >>
     ELSE \E ids \in [ 1..Len(all_records) -> RowIds ],
             rows \in { [ i \in 1..Len(all_records) |-> result_row(all_records[i]) ] } :
            \E df_dedup \in { drop_duplicates(rows, ids) } :
              \E order \in sort_orders([ i \in 1..Len(df_dedup) |-> to_datetime(df_dedup[i]["PO Date"]) ]) :
                /\ df_final' = rows
                /\ output' = [ output EXCEPT ![OutputName(year_folder)] =
                                 [ columns |-> result_columns,
                                   rows |-> [ i \in 1..Len(order) |-> df_dedup[order[i]] ] ] ]
                /\ returned' = "True"
  /\ UNCHANGED << textVars, mainVars, sheetVars, files, year_folder, skip_processed, processed_files, excel_files,
                  file_idx, all_records, runs, skip_always, ledger, marked >>

Next ==
  \/ \E path \in ArrivingFiles : AddFile(path)
  \/ \E folder \in YearFolders, skip \in BOOLEAN : StartRun(folder, skip)
  \/ ProcessFile
  \/ Finish

Spec == Init /\ [][Next]_vars

-----------------------------------------------------------------------------
(* process_year_folder, interrupted                                        *)

\* the folders as they are found: no workbook arrives between the runs
InitInterrupt ==
  /\ SheetIdle
  /\ TextIdle
  /\ MainIdle
  /\ marked = NoMark
  /\ ledger = [ o \in OutputNames |-> "" ]
  /\ files \in { InitialFiles \cup arrived : arrived \in SUBSET ArrivingFiles }
  /\ output = [ o \in OutputNames |-> NoFile ]
  /\ pc = "idle"
  /\ year_folder = None
  /\ skip_processed = TRUE
  /\ processed_files = {}
  /\ excel_files = << >>
  /\ file_idx = 0
  /\ all_records = << >>
  /\ df_final = << >>
  /\ returned = None
  /\ runs = 0
  /\ skip_always = TRUE

\* the run is stopped inside its file loop (KeyboardInterrupt, which the loop's
\* 'except Exception' lets through, or the process killed): it returns nothing and
\* what it appended to the tracking file stays
Interrupt ==
  /\ pc = "files"
  /\ pc' = "idle"
  /\ UNCHANGED << textVars, mainVars, sheetVars, files, output, year_folder, skip_processed, processed_files,
                  excel_files, file_idx, all_records, df_final, returned, runs, skip_always, ledger, marked >>

NextInterrupt ==
  \/ \E folder \in YearFolders, skip \in BOOLEAN : StartRun(folder, skip)
  \/ ProcessFile
  \/ Finish
  \/ Interrupt

SpecInterrupt == InitInterrupt /\ [][NextInterrupt]_vars

-----------------------------------------------------------------------------
(* main                                                                    *)

\* tracking files left by earlier runs
EarlierLedgers == { "", "a.xlsx\n" }

InitMain ==
  /\ SheetIdle
  /\ files \in SUBSET DOMAIN Workbook
  /\ output = [ o \in OutputNames |-> NoFile ]
  /\ pc = "idle"
  /\ year_folder = None
  /\ skip_processed = TRUE
  /\ processed_files = {}
  /\ excel_files = << >>
  /\ file_idx = 0
  /\ all_records = << >>
  /\ df_final = << >>
  /\ returned = None
  /\ runs = 0
  /\ skip_always = TRUE
  /\ TextIdle
  /\ marked = NoMark
  /\ ledger \in [ OutputNames -> EarlierLedgers ]
  /\ pc_main = "start"
  /\ year_folders = << >>
  /\ year_idx = 0
  /\ successful = 0
  /\ failed = 0

\* main up to its loop: the year folders are found and sorted
MainEnter ==
  /\ pc_main = "start"
  /\ year_folders' = find_year_folders(BASE_DIR, listdir(BASE_DIR, files) \cup OtherDirs)
  /\ IF year_folders' = << >>
     THEN pc_main' = "returned" /\ year_idx' = year_idx
     ELSE pc_main' = "loop" /\ year_idx' = 1
  /\ successful' = 0
  /\ failed' = 0
  /\ UNCHANGED << textVars, sheetVars, yearVars, ledger, marked >>

\* process_year_folder(year_folder, OUTPUT_DIR) is called for the next year folder
MainCall ==
  /\ pc_main = "loop"
  /\ returned = None
  /\ year_idx <= Len(year_folders)
  /\ StartRun(year_folders[year_idx], TRUE)

\* the call has returned: the year is counted
MainTally ==
  /\ pc_main = "loop"
  /\ pc = "idle"
  /\ returned # None
  /\ IF returned = "True"
     THEN successful' = successful + 1 /\ failed' = failed
     ELSE failed' = failed + 1 /\ successful' = successful
  /\ year_idx' = year_idx + 1
  /\ returned' = None
  /\ UNCHANGED << textVars, sheetVars, files, output, pc, year_folder, skip_processed, processed_files,
                  excel_files, file_idx, all_records, df_final, runs, skip_always, ledger, marked,
                  pc_main, year_folders >>

\* pd.ExcelWriter raises (the output file is open elsewhere, the directory cannot be
\* written): nothing in process_year_folder or main catches it
WriteRaises ==
  /\ pc_main = "loop"
  /\ pc = "files"
  /\ file_idx > Len(excel_files)
  /\ all_records # << >>
  /\ pc' = "idle"
  /\ pc_main' = "raised"
  /\ UNCHANGED << textVars, sheetVars, files, output, year_folder, skip_processed, processed_files,
                  excel_files, file_idx, all_records, df_final, returned, runs, skip_always, ledger, marked,
                  year_folders, year_idx, successful, failed >>

\* the loop is over: the summary is printed
MainSummary ==
  /\ pc_main = "loop"
  /\ pc = "idle"
  /\ returned = None
  /\ year_idx > Len(year_folders)
  /\ pc_main' = "done"
  /\ UNCHANGED << textVars, sheetVars, yearVars, ledger, marked, year_folders, year_idx, successful, failed >>

NextMain ==
  \/ MainEnter
  \/ MainCall
  \/ ProcessFile
  \/ Finish
  \/ WriteRaises
  \/ MainTally
  \/ MainSummary

SpecMain == InitMain /\ [][NextMain]_vars

-----------------------------------------------------------------------------
(* Properties                                                              *)

\* the step-by-step extraction returns what extract_data_from_sheet computes
StepsAgree == (pc_sheet = "returned" /\ df_sheet # << >>) => extracted = extract_data_from_sheet(df_sheet)

\* the three values that identify an order
record_triple(record) == << Get(record, "Order Form"), Get(record, "PO Date"), Get(record, "Brand Name") >>
row_triple(row) == << row["Order Form"], row["PO Date"], row["Brand Name"] >>

\* the records a file in a year folder yields when it is opened
yield_of(path) == IF Workbook[path] = Corrupt THEN << >> ELSE file_records(Workbook[path])

\* the files of a year folder whose names the year's ledger holds
ledgered_files(folder) ==
  { p \in Range(get_all_excel_files(folder, files)) :
      basename(p) \in get_processed_files_from_tracking(ledger[OutputName(folder)]) }

\* the duplicate keys of the rows of a year's output, rows without a key taken as one
output_keys(o) == { create_key(output[o].rows[i], "") : i \in 1..Len(output[o].rows) }

(* C1: after completed runs with skipping enabled, every file named in a year's
   ledger has each record extracted from it represented in the year's output by
   a row with that record's duplicate key; later runs drop none of them. *)
C1_LedgeredFilesInOutput ==
  (pc = "idle" /\ skip_always) =>
    \A folder \in YearFolders : \A p \in ledgered_files(folder) :
      \A i \in 1..Len(yield_of(p)) :
        create_key(result_row(yield_of(p)[i]), "") \in output_keys(OutputName(folder))

(* C2: every output table written has exactly REQUIRED_COLUMNS as its column
   sequence, in that order, and every row has a cell for exactly those columns,
   whatever keys the collected records carry. *)
C2_OutputColumnsCanonical ==
  \A o \in OutputNames : output[o] # NoFile =>
    /\ output[o].columns = REQUIRED_COLUMNS
    /\ \A i \in 1..Len(output[o].rows) : DOMAIN output[o].rows[i] = Range(output[o].columns)

\* an output was written from records among which one carries a key outside the
\* canonical set and one lacks most fields
C2_Witness ==
  /\ pc = "idle" /\ returned = "True"
  /\ output[OutputName(year_folder)] # NoFile
  /\ \E i \in 1..Len(all_records) : ~ (Keys(all_records[i]) \subseteq Columns)
  /\ \E i \in 1..Len(all_records) : Cardinality(Keys(all_records[i])) <= 2

(* C3 as stated: the canonical column set has exactly 85 entries and every
   output table has exactly 85 columns. *)
C3_EightyFiveColumns ==
  /\ Len(REQUIRED_COLUMNS) = 85
  /\ \A o \in OutputNames : output[o] # NoFile => Len(output[o].columns) = 85

(* C3, amended: the canonical column set has exactly 86 distinct entries and
   every output table written has exactly 86 columns. *)
C3_EightySixColumns ==
  /\ Len(REQUIRED_COLUMNS) = 86
  /\ Cardinality(Columns) = 86
  /\ \A o \in OutputNames : output[o] # NoFile =>
       /\ Len(output[o].columns) = 86
       /\ \A i \in 1..Len(output[o].rows) : Cardinality(DOMAIN output[o].rows[i]) = 86

\* an output of three rows or more has been written
C3_Witness ==
  \E o \in OutputNames : output[o] # NoFile /\ Len(output[o].rows) >= 3

(* C4: projection is exact: the cell of record R under canonical column C is
   R's value under key C, and empty when R has no key C. *)
C4_ProjectionExact ==
  \A i \in 1..Len(df_final) : \A c \in Columns : df_final[i][c] = Get(all_records[i], c)

\* the first collected record with the triple of record i
first_with_triple(i) == MinOf({ j \in 1..i : record_triple(all_records[j]) = record_triple(all_records[i]) })

(* C5: within one run, for every collected record that has an Order Form, a
   PO Date or a Brand Name, the output holds exactly one row with that record's
   three values, and it is the row of the first collected record with those
   values; no two output rows have the same three values present. *)
C5_FirstOfEachKeyKept ==
  (pc = "idle" /\ returned = "True") =>
    LET rows == output[OutputName(year_folder)].rows
        absent == << None, None, None >>
    IN /\ \A i \in 1..Len(all_records) :
            record_triple(all_records[i]) # absent =>
              LET same == { k \in 1..Len(rows) : row_triple(rows[k]) = record_triple(all_records[i]) }
              IN /\ Cardinality(same) = 1
                 /\ \A k \in same : rows[k] = df_final[first_with_triple(i)]
       /\ \A k, l \in 1..Len(rows) :
            (k # l /\ row_triple(rows[k]) # absent) => row_triple(rows[k]) # row_triple(rows[l])

(* C6: after mark_file_as_processed(f, y), the set get_processed_files_from_tracking(y)
   returns contains f and every name it contained before the call. *)
C6_LedgerRoundTrip ==
  marked.file_name # None =>
    LET now == get_processed_files_from_tracking(ledger[marked.year_name])
    IN marked.file_name \in now /\ marked.before \subseteq now

\* the step of the file loop that opens the current file
OpensFile ==
  /\ pc = "files" /\ file_idx <= Len(excel_files)
  /\ ~ (skip_processed /\ basename(excel_files[file_idx]) \in processed_files)
  /\ file_idx' = file_idx + 1

\* that step appends the file's name to the year's ledger
AppendsFile ==
  ledger' = [ ledger EXCEPT ![OutputName(year_folder)] = @ \o basename(excel_files[file_idx]) \o "\n" ]

C8_ZeroYieldStaysEligible ==
  (pc = "files" /\ file_idx <= Len(excel_files) /\ yield_of(excel_files[file_idx]) = << >>) =>
    ~ (skip_processed /\ basename(excel_files[file_idx]) \in processed_files)

\* a key of the acceptance gate is populated in the record
populated(record, k) == Get(record, k) # None /\ Get(record, k) # ""

(* C9: extract_data_from_sheet returns a record only if one of 'Order Form',
   'Reference Format No' and 'PO Reference' is populated in it; a sheet whose
   scans populate none of them yields None however many other fields they
   found, and a sheet of fewer than 5 rows yields None. *)
C9_AcceptanceGate ==
  pc_sheet = "returned" =>
    /\ extracted # NoData => \E k \in GateKeys : populated(extracted, k)
    /\ (\A k \in GateKeys : ~ populated(data, k)) => extracted = NoData
    /\ len(df_sheet) < 5 => extracted = NoData
    /\ extracted \in { NoData, data }

\* a sheet of five rows or more on which the scans found fields but none of the
\* three was rejected
C9_Witness ==
  /\ pc_sheet = "returned" /\ len(df_sheet) >= 5
  /\ data # << >> /\ \A k \in GateKeys : ~ populated(data, k)
  /\ extracted = NoData

\* the rows of the header block on which a field's keyword is found and its
\* expression extracts a value
qualifying_rows(df, field) ==
  { r \in HeaderFirst..(Min2(HeaderStop, len(df)) - 1) :
      /\ columns(df) > 0
      /\ \E kw \in field.keywords : contains(str_lower(str(iloc(df, r, 0))), kw)
      /\ safe_extract(df, r, 0, field.pattern) \notin { None, "" } }

(* C10: the header scan is first-match-wins: once the header rows are scanned,
   each header field holds the value extracted from the first row that carries
   its keyword and yields a value. *)
C10_HeaderFirstMatchWins ==
  pc_sheet = "titles" =>
    \A k \in 1..Len(HeaderFields) :
      LET field == HeaderFields[k]
          rows == qualifying_rows(df_sheet, field)
      IN rows # {} => Get(data, field.column) = safe_extract(df_sheet, MinOf(rows), 0, field.pattern)

\* the title/details row the loop has just left, and its cells
scanned_row == row_idx - 1
scanned_title == str_strip(str(iloc(df_sheet, scanned_row, 1)))
scanned_details == IF iloc(df_sheet, scanned_row, 2) # NaN THEN str_strip(str(iloc(df_sheet, scanned_row, 2))) ELSE ""

(* C11: the title/details scan never overwrites: a step of the loop leaves every
   key the record already holds, whether the header scan or an earlier title row
   stored it, with the value it had. *)
C11_TitleNeverOverwrites ==
  [][ (pc_sheet = "titles" /\ pc_sheet' = "titles") =>
        \A k \in Keys(data) : HasKey(data', k) /\ Get(data', k) = Get(data, k) ]_vars

\* the loop has left a second 'Brand Name' row whose details differ from the value kept
C11_Witness ==
  /\ pc_sheet = "titles" /\ row_idx > TitleFirst + 1
  /\ scanned_title = "Brand Name" /\ scanned_details = "Y"
  /\ Get(data, "Brand Name") = "X"

\* the targets whose normalized form is that of the label, and those with its word set
exact_targets(source_name, target_columns) ==
  { target_columns[i] : i \in { j \in 1..Len(target_columns) :
                                  normalize_text(target_columns[j]) = normalize_text(source_name) } }
equal_word_targets(source_name, target_columns) ==
  { target_columns[i] : i \in { j \in 1..Len(target_columns) :
                                  split_words(normalize_text(target_columns[j])) = split_words(normalize_text(source_name)) } }

\* the overlap of a label's words with a target's when one word set contains the other, else 0
subset_score(source_name, target) ==
  LET source_words == split_words(normalize_text(source_name))
      target_words == split_words(normalize_text(target))
  IN IF source_words \subseteq target_words \/ target_words \subseteq source_words
     THEN Cardinality(source_words \cap target_words) ELSE 0

\* the targets with the highest positive subset score
best_subset_targets(source_name, target_columns) ==
  { t \in Range(target_columns) :
      /\ subset_score(source_name, t) > 0
      /\ \A u \in Range(target_columns) : subset_score(source_name, u) <= subset_score(source_name, t) }

(* C12: matcher priority: match_column_name returns a target whose normalized
   form equals the normalized label whenever there is one; otherwise, when no
   target has the label's word set and the normalized label is an alias key, it
   returns the alias's column; a best subset-scored candidate (or nothing, when
   there is none) is returned only when neither applies. *)
C12_MatcherPriority ==
  (match_result # NotCalled /\ match_source # "") =>
    LET exact == exact_targets(match_source, match_targets)
        equal == equal_word_targets(match_source, match_targets)
        alias == normalize_text(match_source) \in DOMAIN variations
        best == best_subset_targets(match_source, match_targets)
    IN /\ exact # {} => match_result \in exact
       /\ (exact = {} /\ equal = {} /\ alias) => match_result = variations[normalize_text(match_source)]
       /\ (exact = {} /\ equal = {} /\ ~ alias) =>
            IF best = {} THEN match_result = None ELSE match_result \in best

\* the label is an alias key, no target equals it, and a target with another name is
\* the best subset candidate: the alias's column was returned
C12_Witness ==
  /\ match_result # NotCalled
  /\ exact_targets(match_source, match_targets) = {}
  /\ normalize_text(match_source) \in DOMAIN variations
  /\ best_subset_targets(match_source, match_targets) # {}
  /\ match_result \notin best_subset_targets(match_source, match_targets)
  /\ match_result = variations[normalize_text(match_source)]

(* C13: the matcher never fabricates a column: what match_column_name returns is
   None or an element of the target list it was given. *)
C13_MatchedInTargets ==
  match_result # NotCalled => match_result \in { None } \cup Range(match_targets)

\* every key the title/details scan has stored is a required column
TitleKeysCanonical ==
  pc_sheet = "titles" => Keys(data) \subseteq Columns

\* a text without letter case, whitespace and the punctuation normalize_text handles
letters_of(s) == remove_chars(str_lower(s), NormClass)

(* C14: normalize_text is punctuation-insensitive: texts that differ only in
   letter case, whitespace and the punctuation characters it handles normalize
   to the same string, as 'M.R.P.' and 'mrp' do. *)
C14_PunctuationInsensitive ==
  (Len(norm_results) >= 1 /\ norm_input \notin { None, NaN }) =>
    \A other \in Texts \ { None, NaN } :
      letters_of(other) = letters_of(norm_input) => normalize_text(other) = norm_results[1]

(* C15: normalize_text is idempotent, and an empty or missing input normalizes
   to the empty string. *)
C15_NormalizeIdempotent ==
  /\ Len(norm_results) >= 2 => norm_results[2] = norm_results[1]
  /\ (Len(norm_results) >= 1 /\ norm_input \in { "", None, NaN }) => norm_results[1] = ""

\* a text the first call changes has been normalized twice
C15_Witness ==
  /\ Len(norm_results) >= 2
  /\ norm_input = "M.R.P. (Per Strip)"
  /\ norm_results[1] = "m r p per strip"

(* C16: year isolation: a failure raised while one year folder is processed is
   contained at the year boundary: main never ends with the exception, and it
   reaches its summary with successful + failed equal to the number of year
   folders it found. *)
C16_YearIsolation ==
  /\ pc_main # "raised"
  /\ pc_main = "done" => successful + failed = Len(year_folders)

\* the step of main that counts a year that returned failure and goes on to the next
CountsFailure ==
  /\ pc_main' = "loop"
  /\ failed' = failed + 1
  /\ successful' = successful
  /\ year_idx' = year_idx + 1

(* C17: a run of process_year_folder that collects no record returns failure
   and leaves every output file and every ledger as they were, and main counts
   the year as failed and continues with the next year folder. *)
C17_ZeroRecordsFail ==
  [][ /\ (pc = "files" /\ pc' = "idle" /\ all_records = << >>) =>
           (returned' = "False" /\ output' = output /\ ledger' = ledger)
      /\ (pc = "idle" /\ pc' = "idle" /\ runs' # runs) =>
           (returned' = "False" /\ output' = output /\ ledger' = ledger)
      /\ (pc' = "files" /\ all_records' = << >>) => (output' = output /\ ledger' = ledger)
      /\ (pc = "files" /\ all_records # << >>) => all_records' # << >>
      /\ (pc_main = "loop" /\ pc = "idle" /\ returned = "False") => CountsFailure ]_vars

\* main has counted the first year as failed after a run that met files and
\* collected nothing, and is about to call the next year
C17_Witness ==
  /\ pc_main = "loop" /\ pc = "idle" /\ returned = None
  /\ year_idx = 2 /\ failed = 1 /\ Len(year_folders) >= 2
  /\ excel_files # << >> /\ all_records = << >>
  /\ \A o \in OutputNames : output[o] = NoFile

\* the first position of a row in the table before deduplication
first_position(row) == MinOf({ i \in 1..Len(df_final) : df_final[i] = row })

(* C18: output row order: the rows are in non-decreasing order of their parsed
   PO Date, rows without a parseable PO Date come after all rows with one, and
   rows with equal sort keys keep the order in which they were collected. *)
C18_SortedAndStable ==
  (pc = "idle" /\ returned = "True") =>
    LET rows == output[OutputName(year_folder)].rows
        date(k) == to_datetime(rows[k]["PO Date"])
    IN \A k, l \in 1..Len(rows) : k < l =>
         /\ date(k) = NaT => date(l) = NaT
         /\ (date(k) # NaT /\ date(l) # NaT) => date(k) <= date(l)
         /\ (date(k) = date(l) /\ rows[k] # rows[l] /\ row_triple(rows[k]) # << None, None, None >>
               /\ row_triple(rows[l]) # << None, None, None >>) =>
              first_position(rows[k]) < first_position(rows[l])

(* C19: the year's output file is written at most once per run, on the step
   that ends the run after the file loop has gone through every file; while
   the run is in the file loop the output file stays what it was. *)
C19_OutputWrittenOnceAtEnd ==
  [][ /\ output' # output => (pc = "files" /\ file_idx > Len(excel_files) /\ pc' = "idle")
      /\ pc' = "files" => output' = output ]_vars

\* a later run is inside its file loop with records collected, the year's output of
\* an earlier run still in place
C19_Witness ==
  /\ pc = "files" /\ file_idx > 1 /\ all_records # << >>
  /\ runs >= 2
  /\ output[OutputName(year_folder)] # NoFile

\* the additional cell (column index 4) of the row just scanned, "" when there is none
scanned_additional ==
  IF columns(df_sheet) > 4 /\ iloc(df_sheet, scanned_row, 4) # NaN
  THEN str_strip(str(iloc(df_sheet, scanned_row, 4))) ELSE ""

MrpColumns == { "M.R.P.", "M.R.P. (Per Strip)" }
StatedPlaceholders == { "EXPORT", "NA", "PHY.SAMPLE", "TO BE CONFIRM", "PER UNIT PRICE" }

(* C20: MRP placeholder fallback: for a title row resolved to an MRP-type
   column with a storable details cell, the record stores the raw details cell
   if the additional cell without its leading 'Rs.' is empty or, in any letter
   case, one of EXPORT, NA, PHY.SAMPLE, TO BE CONFIRM, PER UNIT PRICE; otherwise
   it stores the additional cell with prefix, whitespace and commas removed. *)
C20_MrpPlaceholderFallback ==
  (/\ pc_sheet = "titles" /\ row_idx = TitleFirst + 1
   /\ match_column_name(scanned_title, REQUIRED_COLUMNS) \in MrpColumns
   /\ scanned_details # "" /\ str_upper(scanned_details) \notin NoValues) =>
    LET without_prefix == str_strip(strip_rs(scanned_additional))
    IN Get(data, match_column_name(scanned_title, REQUIRED_COLUMNS)) =
         IF without_prefix = "" \/ str_upper(without_prefix) \in StatedPlaceholders
         THEN scanned_details
         ELSE remove_chars(without_prefix, { "," } \cup Whitespace)

\* record i of the run is in the output: a row of the output is its projected row
survives(i) ==
  \E k \in 1..Len(output[OutputName(year_folder)].rows) : output[OutputName(year_folder)].rows[k] = df_final[i]

(* C21: deduplication removes a record only if an earlier collected record has
   the same (Order Form, PO Date, Brand Name) triple, a missing field equal only
   to a missing field: a record whose triple no earlier record of the run has
   is in the output. *)
C21_RemovedOnlyIfSameTriple ==
  (pc = "idle" /\ returned = "True") =>
    \A i \in 1..Len(all_records) :
      (\A j \in 1..(i - 1) : record_triple(all_records[j]) # record_triple(all_records[i])) => survives(i)

(* C22: interruption safety of ledger and output together: after a complete
   run over a year folder, every file of the folder that the ledger names,
   whether a complete or an interrupted run marked it, has each of its records
   represented in the year's output by a row with that record's duplicate key. *)
C22_MarkedFilesInOutput ==
  (pc = "idle" /\ returned \in { "True", "False" }) =>
    \A p \in ledgered_files(year_folder) :
      \A i \in 1..Len(yield_of(p)) :
        create_key(result_row(yield_of(p)[i]), "") \in output_keys(OutputName(year_folder))

====
